---- MODULE Spec2Model ----
(***************************************************************************)
(* The schedule notification engine of profit-backend: the due-time        *)
(* evaluation and the sweep of utils/scheduler.js, and the schedule        *)
(* controller (create, update, delete, complete with rollover).            *)
(*                                                                         *)
(* Time is the JavaScript Date value at whole seconds (seconds since the   *)
(* epoch); the server's local time zone is taken to be UTC, so the local   *)
(* calendar fields of a Date are those of its UTC instant.                 *)
(***************************************************************************)
EXTENDS Integers, Sequences, FiniteSets, TLC

VARIABLES
  ev,         \* the evaluator's run (SpecEval); idle in the system's runs
  rec,        \* the recurrence calculation's run (SpecRecur); idle elsewhere
  shop,       \* the Product and Sale collections (SpecStock); idle elsewhere
  clock,      \* the wall clock, new Date()
  users,      \* the User collection: the ids of the existing users
  schedules,  \* the Schedule collection: _id -> document
  nextId,     \* the _id the next created document gets
  sweeps,     \* the executions of checkAndSendNotifications in progress
  cronLast,   \* the minute boundary of the latest cron tick
  cronDone,   \* now of the latest cron tick that ran to its end
  overlap,    \* history: two sweeps were in progress at once
  restarts,   \* number of process restarts
  log,        \* history per _id: notifications sent, lastNotified writes
  last,       \* history: the latest controller request and its response
  ops,        \* number of controller requests served
  faults      \* number of store operations that failed

storeVars == <<users, schedules, nextId>>
sweepVars == <<sweeps, cronLast, cronDone, overlap, restarts>>
histVars  == <<log, last, ops, faults>>
sysVars   == <<clock, storeVars, sweepVars, histVars>>
vars      == <<ev, rec, shop, sysVars>>

(* ------------------------------------------------------------------ *)
(* Program constants                                                    *)
(* ------------------------------------------------------------------ *)

\* 60000 ms: the tolerance of isTimeToSend
WindowSec == 60

\* 1000 * 60 * 60 * 24 ms: one day
DaySec == 86400

\* seconds in a calendar minute (Date.getMinutes granularity)
MinuteSec == 60

\* an absent Date (undefined / null)
NoDate == 0 - 1

(* ------------------------------------------------------------------ *)
(* Bounds of the model                                                  *)
(* ------------------------------------------------------------------ *)

\* largest advanceNotificationDays drawn
MaxAdvanceDays == 2

\* Schedule documents ever created in a run
MaxSchedules == 2

\* events in a run: controller requests served, store and notifier operations
\* that fail, process restarts
MaxEvents == 3

\* steps of wall-clock time followed around the firings of a day
HorizonSteps == 4

\* days after the first one that the runs reach
HorizonDays == 3

\* occurrences a series is rolled over to in the runs of the recurrence
MaxRollovers == 2

\* wall-clock time advances by half a calendar minute inside a minute, so that
\* every cron tick (at second 0) is an instant of the model
StepSec == MinuteSec \div 2

(* ------------------------------------------------------------------ *)
(* JavaScript Date: calendar fields of an instant and back              *)
(* ------------------------------------------------------------------ *)

Abs(x) == IF x < 0 THEN 0 - x ELSE x

\* Math.ceil(a / b) for b > 0
CeilDiv(a, b) == 0 - ((0 - a) \div b)

\* day number (days since 1970-01-01) of year y, month m (1..12), day d;
\* d may exceed the month's length and then runs on into the next months,
\* as Date.setDate / setMonth / setFullYear normalise their result
DaysFromCivil(y, m, d) ==
  LET yy  == IF m <= 2 THEN y - 1 ELSE y
      era == yy \div 400
      yoe == yy - era * 400
      mp  == IF m > 2 THEN m - 3 ELSE m + 9
      doy == (153 * mp + 2) \div 5 + d - 1
      doe == yoe * 365 + yoe \div 4 - yoe \div 100 + doy
  IN  era * 146097 + doe - 719468

\* [y, m, d] of a day number
CivilFromDays(z0) ==
  LET z   == z0 + 719468
      era == z \div 146097
      doe == z - era * 146097
      yoe == (doe - doe \div 1460 + doe \div 36524 - doe \div 146096) \div 365
      doy == doe - (365 * yoe + yoe \div 4 - yoe \div 100)
      mp  == (5 * doy + 2) \div 153
      d   == doy - (153 * mp + 2) \div 5 + 1
      m   == IF mp < 10 THEN mp + 3 ELSE mp - 9
      y   == yoe + era * 400 + (IF m <= 2 THEN 1 ELSE 0)
  IN  [y |-> y, m |-> m, d |-> d]

getFullYear(t) == CivilFromDays(t \div DaySec).y
\* 0..11 as in JavaScript
getMonth(t)    == CivilFromDays(t \div DaySec).m - 1
getDate(t)     == CivilFromDays(t \div DaySec).d
getHours(t)    == (t % DaySec) \div 3600
getMinutes(t)  == (t % 3600) \div MinuteSec

\* the instant with the given calendar fields and the time of day of t;
\* month0 may be 12 (rolls into the next year), d may overflow the month
MakeDate(y, month0, d, t) ==
  LET yy == y + month0 \div 12
      mm == (month0 % 12) + 1
  IN  DaysFromCivil(yy, mm, d) * DaySec + (t % DaySec)

(* ------------------------------------------------------------------ *)
(* utils/scheduler.js: the due-time evaluation                          *)
(* ------------------------------------------------------------------ *)

\* isSameMinute(date1, date2)
isSameMinute(d1, d2) ==
  /\ getFullYear(d1) = getFullYear(d2)
  /\ getMonth(d1) = getMonth(d2)
  /\ getDate(d1) = getDate(d2)
  /\ getHours(d1) = getHours(d2)
  /\ getMinutes(d1) = getMinutes(d2)

\* isTimeToSend with the window's end excluded
isTimeToSend_strict(scheduled, now) ==
  Abs(scheduled - now) < WindowSec /\ scheduled <= now

\* isTimeToSend(scheduledDate, now)
isTimeToSend(scheduled, now) ==
  Abs(scheduled - now) <= WindowSec /\ scheduled <= now

\* the day count by truncation towards minus infinity instead of Math.ceil
daysUntilDue_floor(dueDate, now) == (dueDate - now) \div DaySec

\* daysUntilDue = Math.ceil((dueDate - nowDate) / (1000 * 60 * 60 * 24))
daysUntilDue(dueDate, now) == CeilDiv(dueDate - now, DaySec)

\* the instant the advance notice targets: dueDate - advanceNotificationDays days
advanceTarget(s) == s.dueDate - s.advanceNotificationDays * DaySec

\* the advance test taken against the due date itself
shouldSendAdvance_noOffset(s, now) ==
  /\ s.advanceNotificationDays > 0
  /\ isTimeToSend(s.dueDate, now)

\* shouldSendAdvance of checkAndSendNotifications
shouldSendAdvance(s, now) ==
  /\ s.advanceNotificationDays > 0
  /\ daysUntilDue(s.dueDate, now) = s.advanceNotificationDays
  /\ isTimeToSend(advanceTarget(s), now)

\* shouldSendDue of checkAndSendNotifications
shouldSendDue(s, now) ==
  /\ daysUntilDue(s.dueDate, now) = 0
  /\ isTimeToSend(s.dueDate, now)

\* alreadyNotified taken from lastNotified alone: any earlier firing counts
alreadyNotified_anyFiring(s, now) ==
  /\ s.lastNotified # NoDate
  /\ shouldSendDue(s, now) \/ shouldSendAdvance(s, now)

\* alreadyNotified of checkAndSendNotifications
alreadyNotified(s, now) ==
  /\ s.lastNotified # NoDate
  /\ \/ shouldSendDue(s, now) /\ isSameMinute(s.lastNotified, s.dueDate)
     \/ shouldSendAdvance(s, now) /\ isSameMinute(s.lastNotified, advanceTarget(s))

\* the guard of the notification branch
shouldNotify(s, now) ==
  (shouldSendAdvance(s, now) \/ shouldSendDue(s, now)) /\ ~alreadyNotified(s, now)

(* ------------------------------------------------------------------ *)
(* controllers/scheduleController.js                                    *)
(* ------------------------------------------------------------------ *)

\* no client linked (clientId null after populate)
NoClient == "none"

Frequencies == {"once", "daily", "weekly", "monthly", "yearly"}
Statuses    == {"pending", "completed", "cancelled"}

\* the candidate next date of calculateNextDueDate: the switch on frequency
candidateDate(dueDate, frequency) ==
  LET y == getFullYear(dueDate)
      m == getMonth(dueDate)
      d == getDate(dueDate)
  IN  CASE frequency = "daily"   -> MakeDate(y, m, d + 1, dueDate)
        [] frequency = "weekly"  -> MakeDate(y, m, d + 7, dueDate)
        [] frequency = "monthly" -> MakeDate(y, m + 1, d, dueDate)
        [] frequency = "yearly"  -> MakeDate(y + 1, m, d, dueDate)
        [] OTHER                 -> NoDate

\* calculateNextDueDate without the test of the candidate against repeatUntil
calculateNextDueDate_unbounded(dueDate, frequency, repeatUntil, now) ==
  IF frequency = "once" \/ frequency \notin Frequencies THEN NoDate
  ELSE IF repeatUntil # NoDate /\ now > repeatUntil THEN NoDate
  ELSE candidateDate(dueDate, frequency)

\* calculateNextDueDate ending the series already at a candidate equal to repeatUntil
calculateNextDueDate_exclusive(dueDate, frequency, repeatUntil, now) ==
  IF frequency = "once" \/ frequency \notin Frequencies THEN NoDate
  ELSE IF repeatUntil # NoDate /\ now > repeatUntil THEN NoDate
  ELSE LET nextDate == candidateDate(dueDate, frequency)
       IN  IF repeatUntil # NoDate /\ nextDate >= repeatUntil THEN NoDate
           ELSE nextDate

\* calculateNextDueDate(dueDate, frequency, repeatUntil), called at instant now
calculateNextDueDate(dueDate, frequency, repeatUntil, now) ==
  IF frequency = "once" \/ frequency \notin Frequencies THEN NoDate
  ELSE IF repeatUntil # NoDate /\ now > repeatUntil THEN NoDate
  ELSE LET nextDate == candidateDate(dueDate, frequency)
       IN  IF repeatUntil # NoDate /\ nextDate > repeatUntil THEN NoDate
           ELSE nextDate

\* the history kept per document, for the claims: notifications handed to the
\* notifier and lastNotified writes, per kind of firing, since dueDate was set;
\* early: the document got its dueDate and its status before that dueDate;
\* failedAt: now of the sweep whose write of lastNotified failed, while no later
\* write has succeeded; fault: what failed in the latest pass of a sweep that
\* found a notification to send for the document
NewLog(early) ==
  [advUser |-> 0, advClient |-> 0, advSaved |-> 0,
   dueUser |-> 0, dueClient |-> 0, dueSaved |-> 0,
   early |-> early, dueModified |-> FALSE, failedAt |-> NoDate, fault |-> "none"]

\* counters of the history stop at 2
Bump(n) == IF n < 2 THEN n + 1 ELSE n

\* no request answered yet
NoRequest ==
  [user |-> "none", op |-> "none", id |-> 0, code |-> 0, fault |-> FALSE,
   data |-> 0, notice |-> "none"]

\* the document new Schedule({...}) builds in createSchedule, with the schema's
\* defaults (status pending, lastNotified unset) and nextDueDate as computed
NewSchedule(userId, in, now) ==
  [userId |-> userId,
   title |-> in.title,
   description |-> in.description,
   clientId |-> in.clientId,
   amount |-> in.amount,
   userNotificationMessage |-> in.userNotificationMessage,
   clientNotificationMessage |-> in.clientNotificationMessage,
   dueDate |-> in.dueDate,
   frequency |-> in.frequency,
   status |-> "pending",
   notifyUser |-> in.notifyUser,
   notifyClient |-> in.notifyClient,
   advanceNotificationDays |-> in.advanceNotificationDays,
   repeatUntil |-> in.repeatUntil,
   lastNotified |-> NoDate,
   nextDueDate |-> IF in.frequency # "once"
                   THEN calculateNextDueDate(in.dueDate, in.frequency, in.repeatUntil, now)
                   ELSE NoDate]

\* findOne by _id alone, without the tenant
findOne_anyTenant(id, userId) == id \in DOMAIN schedules

\* Schedule.findOne({ _id: id, userId })
findOne(id, userId) ==
  id \in DOMAIN schedules /\ schedules[id].userId = userId

\* the run's budget of events is not used up
Budget == ops + faults + restarts < MaxEvents

\* a request is served: authenticateUser found the caller
Serve(userId) == userId \in users /\ Budget

\* the response to the request op of caller user on document id
\* the _id of the document in the body of the response: res.json({ data }) of
\* get, create, update and complete; none in an error and in delete's message
dataOf(op, id, code) ==
  IF code \in {200, 201} /\ op \in {"get", "create", "update", "complete"} THEN id ELSE 0

Respond(user, op, id, code, fault) ==
  /\ last' = [user |-> user, op |-> op, id |-> id, code |-> code, fault |-> fault,
              data |-> dataOf(op, id, code), notice |-> "none"]
  /\ ops' = ops + 1

\* what can fail in completeSchedule: newSchedule.save(), and inside the try of
\* the completion notice User.findById and sendCompletionNotification
CompleteFaults == {"none", "successorSave", "userLookup", "noticeSend"}

\* a failure of the completion notice reaching the handler's catch
noticePropagates_failures(fault) == fault \in {"userLookup", "noticeSend"}

\* the completion notice has a try/catch of its own: its failures are logged
noticePropagates(fault) == FALSE

\* the response of completeSchedule after schedule.save(): the original, read
\* again by its _id; notice records what failed in the completion notice
RespondCompleted(user, id, fault) ==
  LET code == IF noticePropagates(fault) THEN 500 ELSE 200
  IN  /\ last' = [user |-> user, op |-> "complete", id |-> id, code |-> code,
                  fault |-> noticePropagates(fault),
                  data |-> dataOf("complete", id, code), notice |-> fault]
      /\ ops' = ops + 1

\* getSchedule: Schedule.findOne({ _id, userId }), nothing is written
getSchedule(userId, id) ==
  /\ Serve(userId)
  /\ Respond(userId, "get", id, IF findOne(id, userId) THEN 200 ELSE 404, FALSE)
  /\ UNCHANGED <<ev, rec, shop, clock, storeVars, sweepVars, log, faults>>

\* createSchedule: the document is built and saved
createSchedule(userId, in) ==
  /\ Serve(userId)
  /\ nextId <= MaxSchedules
  /\ schedules' = [i \in DOMAIN schedules \cup {nextId} |->
                     IF i = nextId THEN NewSchedule(userId, in, clock) ELSE schedules[i]]
  /\ log' = [i \in DOMAIN log \cup {nextId} |->
                     IF i = nextId THEN NewLog(clock < in.dueDate) ELSE log[i]]
  /\ nextId' = nextId + 1
  /\ Respond(userId, "create", nextId, 201, FALSE)
  /\ UNCHANGED <<ev, rec, shop, clock, users, sweepVars, faults>>

\* updateSchedule recalculating nextDueDate for a recurring reminder only, and
\* leaving it as it is otherwise
Updated_keepsNext(s, body, now) ==
  LET a == [f \in DOMAIN s |-> IF f \in DOMAIN body THEN body[f] ELSE s[f]]
  IN  [a EXCEPT !.nextDueDate =
         IF a.frequency # "once"
         THEN calculateNextDueDate(a.dueDate, a.frequency, a.repeatUntil, now)
         ELSE @]

\* the document of updateSchedule after the fields of the request body are
\* assigned and nextDueDate is recalculated
Updated(s, body, now) ==
  LET a == [f \in DOMAIN s |-> IF f \in DOMAIN body THEN body[f] ELSE s[f]]
  IN  [a EXCEPT !.nextDueDate =
         IF a.frequency # "once"
         THEN calculateNextDueDate(a.dueDate, a.frequency, a.repeatUntil, now)
         ELSE NoDate]

\* updateSchedule
updateSchedule(userId, id, body) ==
  /\ Serve(userId)
  /\ IF findOne(id, userId)
     THEN /\ schedules' = [schedules EXCEPT ![id] = Updated(schedules[id], body, clock)]
          /\ log' = IF schedules'[id].dueDate # schedules[id].dueDate
                    THEN [log EXCEPT ![id] =
                            [NewLog(clock < schedules'[id].dueDate)
                               EXCEPT !.dueModified = TRUE]]
                    ELSE IF schedules'[id].status # schedules[id].status
                    THEN [log EXCEPT ![id].early = clock < schedules[id].dueDate]
                    ELSE log
          /\ Respond(userId, "update", id, 200, FALSE)
     ELSE /\ UNCHANGED <<schedules, log>>
          /\ Respond(userId, "update", id, 404, FALSE)
  /\ UNCHANGED <<ev, rec, shop, clock, users, nextId, sweepVars, faults>>

\* deleteSchedule: Schedule.findOneAndDelete({ _id, userId })
deleteSchedule(userId, id) ==
  /\ Serve(userId)
  /\ IF findOne(id, userId)
     THEN /\ schedules' = [i \in DOMAIN schedules \ {id} |-> schedules[i]]
          /\ Respond(userId, "delete", id, 200, FALSE)
     ELSE /\ UNCHANGED schedules
          /\ Respond(userId, "delete", id, 404, FALSE)
  /\ UNCHANGED <<ev, rec, shop, clock, users, nextId, sweepVars, log, faults>>

\* a next occurrence built from the dates alone, the notification settings and
\* the texts left at the schema's defaults
Successor_defaults(s, userId, newNextDueDate) ==
  [userId |-> userId,
   title |-> s.title,
   description |-> "",
   clientId |-> s.clientId,
   amount |-> 0,
   userNotificationMessage |-> "",
   clientNotificationMessage |-> "",
   dueDate |-> s.nextDueDate,
   frequency |-> s.frequency,
   status |-> "pending",
   notifyUser |-> TRUE,
   notifyClient |-> FALSE,
   advanceNotificationDays |-> 0,
   repeatUntil |-> s.repeatUntil,
   lastNotified |-> NoDate,
   nextDueDate |-> newNextDueDate]

\* the next occurrence completeSchedule builds: the fields of the original,
\* dueDate = its nextDueDate, the given nextDueDate, the schema's defaults
Successor(s, userId, newNextDueDate) ==
  [userId |-> userId,
   title |-> s.title,
   description |-> s.description,
   clientId |-> s.clientId,
   amount |-> s.amount,
   userNotificationMessage |-> s.userNotificationMessage,
   clientNotificationMessage |-> s.clientNotificationMessage,
   dueDate |-> s.nextDueDate,
   frequency |-> s.frequency,
   status |-> "pending",
   notifyUser |-> s.notifyUser,
   notifyClient |-> s.notifyClient,
   advanceNotificationDays |-> s.advanceNotificationDays,
   repeatUntil |-> s.repeatUntil,
   lastNotified |-> NoDate,
   nextDueDate |-> newNextDueDate]

\* the rollover taken for every reminder, whatever its frequency
spawns_unconditional(s, now) == TRUE

\* the test under which completeSchedule creates the next occurrence
spawns(s, now) ==
  /\ s.frequency # "once"
  /\ s.nextDueDate # NoDate
  /\ calculateNextDueDate(s.nextDueDate, s.frequency, s.repeatUntil, now) # NoDate

\* completeSchedule; with fault successorSave newSchedule.save() throws, which
\* the handler's catch turns into a 500 before schedule.save() is reached; the
\* other faults are those of the completion notice, after schedule.save()
completeSchedule(userId, id, fault) ==
  /\ Serve(userId)
  /\ IF ~findOne(id, userId)
     THEN /\ fault = "none"
          /\ UNCHANGED <<schedules, log, nextId, faults>>
          /\ Respond(userId, "complete", id, 404, FALSE)
     ELSE LET s == schedules[id]
              newNextDueDate ==
                calculateNextDueDate(s.nextDueDate, s.frequency, s.repeatUntil, clock)
          IN  IF spawns(s, clock)
              THEN /\ nextId <= MaxSchedules
                   /\ IF fault = "successorSave"
                      THEN /\ faults' = faults + 1
                           /\ UNCHANGED <<schedules, log, nextId>>
                           /\ Respond(userId, "complete", id, 500, TRUE)
                      ELSE /\ schedules' =
                                [i \in DOMAIN schedules \cup {nextId} |->
                                   IF i = nextId THEN Successor(s, userId, newNextDueDate)
                                   ELSE IF i = id THEN [s EXCEPT !.status = "completed"]
                                   ELSE schedules[i]]
                           /\ log' = [i \in DOMAIN log \cup {nextId} |->
                                        IF i = nextId THEN NewLog(clock < s.nextDueDate)
                                        ELSE IF i = id /\ s.status # "completed"
                                        THEN [log[i] EXCEPT !.early = clock < s.dueDate]
                                        ELSE log[i]]
                           /\ nextId' = nextId + 1
                           /\ faults' = IF fault = "none" THEN faults ELSE faults + 1
                           /\ RespondCompleted(userId, id, fault)
              ELSE /\ fault # "successorSave"
                   /\ schedules' = [schedules EXCEPT ![id].status = "completed"]
                   /\ log' = IF s.status # "completed"
                             THEN [log EXCEPT ![id].early = clock < s.dueDate] ELSE log
                   /\ faults' = IF fault = "none" THEN faults ELSE faults + 1
                   /\ UNCHANGED nextId
                   /\ RespondCompleted(userId, id, fault)
  /\ UNCHANGED <<ev, rec, shop, clock, users, sweepVars>>

\* adminController.deleteUser: the user goes, the user's schedules stay
deleteUser(userId) ==
  /\ userId \in users
  /\ Budget
  /\ users' = users \ {userId}
  /\ Respond("admin", "deleteUser", 0, 200, FALSE)
  /\ UNCHANGED <<ev, rec, shop, clock, schedules, nextId, sweepVars, log, faults>>

(* ------------------------------------------------------------------ *)
(* utils/scheduler.js: the sweep                                        *)
(* ------------------------------------------------------------------ *)

\* the two callers of checkAndSendNotifications in startScheduler: the call at
\* startup and the cron callback
SweepKinds == {"eager", "cron"}

\* what can fail while one reminder is processed
StepFaults == {"none", "userLookup", "userSend", "clientSend", "save"}

IdleSweep == [active |-> FALSE, now |-> NoDate, queue |-> <<>>]

\* the candidates of a find without the status filter
PendingIds_all == DOMAIN schedules

PendingIds == {i \in DOMAIN schedules : schedules[i].status = "pending"}

\* Schedule.find({ status: 'pending' }): the documents as loaded, in _id order
schedulesToCheck ==
  [k \in 1 .. Cardinality(PendingIds) |->
     LET i == CHOOSE i \in PendingIds : Cardinality({j \in PendingIds : j < i}) = k - 1
     IN  [id |-> i, doc |-> schedules[i]]]

\* a sweep begins: now is taken and the candidates are loaded; with none to
\* check it is over at once
Begin(kind) ==
  /\ sweeps' = [sweeps EXCEPT ![kind] =
                  IF schedulesToCheck = <<>> THEN IdleSweep
                  ELSE [active |-> TRUE, now |-> clock, queue |-> schedulesToCheck]]
  /\ overlap' = (overlap \/ (schedulesToCheck # <<>> /\ \E k \in SweepKinds : sweeps[k].active))
  /\ cronDone' = IF kind = "cron" /\ schedulesToCheck = <<>> THEN clock ELSE cronDone

\* the cron callback of startScheduler, at a minute boundary
cronTick ==
  /\ clock % MinuteSec = 0
  /\ cronLast < clock
  /\ ~sweeps["cron"].active
  /\ Begin("cron")
  /\ cronLast' = clock
  /\ UNCHANGED <<ev, rec, shop, clock, storeVars, restarts, histVars>>

\* the process starts again: startScheduler runs the sweep at once
restart ==
  /\ Budget
  /\ \A k \in SweepKinds : ~sweeps[k].active
  /\ Begin("eager")
  /\ restarts' = restarts + 1
  /\ UNCHANGED <<ev, rec, shop, clock, storeVars, cronLast, histVars>>

\* the sweep after the body of its loop ran for the head of its queue
Continue(kind) ==
  LET sw == sweeps[kind]
      rest == Tail(sw.queue)
  IN  /\ sweeps' = [sweeps EXCEPT ![kind] =
                      IF rest = <<>> THEN IdleSweep ELSE [sw EXCEPT !.queue = rest]]
      /\ cronDone' = IF kind = "cron" /\ rest = <<>> THEN sw.now ELSE cronDone

\* the sweep after an exception left the loop for the catch of line 103
Abort(kind) ==
  /\ sweeps' = [sweeps EXCEPT ![kind] = IdleSweep]
  /\ cronDone' = IF kind = "cron" THEN sweeps[kind].now ELSE cronDone

\* the history of document id after a firing of the given kind
Logged(id, isDue, user, client, saved) ==
  LET l == log[id]
  IN  IF isDue
      THEN [l EXCEPT !.dueUser = IF user THEN Bump(@) ELSE @,
                     !.dueClient = IF client THEN Bump(@) ELSE @,
                     !.dueSaved = IF saved THEN Bump(@) ELSE @]
      ELSE [l EXCEPT !.advUser = IF user THEN Bump(@) ELSE @,
                     !.advClient = IF client THEN Bump(@) ELSE @,
                     !.advSaved = IF saved THEN Bump(@) ELSE @]

\* schedule.save() writing back the whole document as the sweep loaded it
saved_wholeDocument(stored, doc, t) == [doc EXCEPT !.lastNotified = t]

\* the stored document after schedule.save() of the loaded document doc, on
\* which the sweep has set lastNotified = t and nothing else: the one modified
\* path is written
saved(stored, doc, t) == [stored EXCEPT !.lastNotified = t]

\* the owner taken as found without a lookup
userFound_always(s) == TRUE

\* User.findById(schedule.userId) finds the owner
userFound(s) == s.userId \in users

\* the sends without a try/catch of their own: every failure leaves the loop body
throws_sends(fault, id) == fault # "none" \/ id \notin DOMAIN schedules

\* the exception of the given failure leaves the loop body: the sends have a
\* try/catch of their own, schedule.save() has none (and throws as well when
\* the document is gone)
throws(fault, id) == fault = "save" \/ id \notin DOMAIN schedules

\* one pass of the loop body of checkAndSendNotifications, for the head of the
\* queue of sweep kind, with the given failure
sweepStep(kind, fault) ==
  /\ sweeps[kind].active
  /\ fault # "none" => Budget
  /\ LET sw  == sweeps[kind]
         id  == Head(sw.queue).id
         s   == Head(sw.queue).doc
         now == sw.now
         isDue == shouldSendDue(s, now)
         toUser == s.notifyUser
         toClient == s.notifyClient /\ s.clientId # NoClient
     IN  IF ~shouldNotify(s, now)
         THEN \* nothing to send for this reminder
              /\ fault = "none"
              /\ Continue(kind)
              /\ UNCHANGED <<schedules, log, faults>>
         ELSE IF fault = "userLookup"
         THEN \* User.findById throws
              /\ Abort(kind)
              /\ faults' = faults + 1
              /\ log' = [log EXCEPT ![id].fault = fault]
              /\ UNCHANGED schedules
         ELSE IF ~userFound(s)
         THEN \* user not found: continue
              /\ fault = "none"
              /\ Continue(kind)
              /\ UNCHANGED <<schedules, log, faults>>
         ELSE /\ fault = "userSend" => toUser
              /\ fault = "clientSend" => toClient
              /\ faults' = IF fault = "none" /\ id \in DOMAIN schedules
                           THEN faults ELSE faults + 1
              /\ IF throws(fault, id)
                 THEN \* the exception ends the sweep
                      /\ Abort(kind)
                      /\ log' = [log EXCEPT ![id] =
                                   [Logged(id, isDue,
                                           toUser /\ fault # "userSend",
                                           toClient /\ fault # "clientSend",
                                           FALSE)
                                      EXCEPT !.failedAt = now,
                                             !.fault = IF fault = "none" THEN "save"
                                                       ELSE fault]]
                      /\ UNCHANGED schedules
                 ELSE /\ Continue(kind)
                      /\ schedules' = [schedules EXCEPT ![id] = saved(schedules[id], s, clock)]
                      /\ log' = [log EXCEPT ![id] =
                                   [Logged(id, isDue,
                                           toUser /\ fault # "userSend",
                                           toClient /\ fault # "clientSend", TRUE)
                                      EXCEPT !.failedAt = NoDate, !.fault = fault]]
  /\ UNCHANGED <<ev, rec, shop, clock, users, nextId, cronLast, overlap, restarts, last, ops>>

(* ------------------------------------------------------------------ *)
(* The wall clock                                                       *)
(* ------------------------------------------------------------------ *)

\* 2024-03-10 10:00:00, a minute boundary; the runs begin one step before
Base  == DaysFromCivil(2024, 3, 10) * DaySec + 10 * 3600
Start == Base - StepSec

\* the instants followed step by step: the steps from Start on, of every day
InHorizon(t) == (t - Start) % DaySec <= HorizonSteps * StepSec

NextBoundary(t) == (t \div MinuteSec + 1) * MinuteSec

\* the cron tick of the minute boundary the clock stands on has fired
TickFired == clock % MinuteSec = 0 => cronLast = clock

\* time passes, up to the next minute boundary
advance ==
  /\ TickFired
  /\ LET t == IF clock + StepSec < NextBoundary(clock)
              THEN clock + StepSec ELSE NextBoundary(clock)
     IN  /\ InHorizon(t)
         /\ clock' = t
  /\ UNCHANGED <<ev, rec, shop, storeVars, sweepVars, histVars>>

\* the instants the pending reminders fire at
Targets ==
  UNION { {schedules[i].dueDate, advanceTarget(schedules[i])} : i \in PendingIds }

\* the minute boundary at or before the earliest firing instant still ahead
SkipTo ==
  LET ahead == {x \in Targets : x > clock}
      first == CHOOSE x \in ahead : \A y \in ahead : x <= y
  IN  (first \div MinuteSec) * MinuteSec

\* an idle stretch: the ticks up to the next firing instant find no reminder
\* inside a firing window, so they change nothing and are passed over in one step
skip ==
  /\ clock % MinuteSec = 0
  /\ cronLast = clock
  /\ \A k \in SweepKinds : ~sweeps[k].active
  /\ \E x \in Targets : x > clock
  /\ SkipTo > clock + MinuteSec
  /\ SkipTo <= Start + HorizonDays * DaySec + HorizonSteps * StepSec
  /\ \A x \in Targets : x < clock \/ x >= SkipTo
  /\ clock' = SkipTo
  /\ cronLast' = SkipTo - MinuteSec
  /\ cronDone' = SkipTo - MinuteSec
  /\ UNCHANGED <<ev, rec, shop, storeVars, sweeps, overlap, restarts, histVars>>

(* ------------------------------------------------------------------ *)
(* The system: requests, sweeps and the clock                           *)
(* ------------------------------------------------------------------ *)

Users == {"u1", "u2"}

\* the tenant whose create requests are followed in full, and whose account the
\* admin may delete; the other one creates single reminders only
Creators == {"u1"}

\* due dates of the requests: on a minute boundary, and 40 seconds into it
DueDates == {Base, Base + 40}

CreateBody(d, f, n, r) ==
  [title |-> "rent", description |-> "office", clientId |-> "c1", amount |-> 100,
   userNotificationMessage |-> "collect", clientNotificationMessage |-> "pay",
   dueDate |-> d, frequency |-> f,
   notifyUser |-> TRUE, notifyClient |-> TRUE,
   advanceNotificationDays |-> n, repeatUntil |-> r]

\* days of advance notice of the monthly reminder of the requests
AdvanceDays == 3

\* the bodies of the create requests: a single reminder on the minute; a daily
\* one 40 seconds into the minute; a daily one whose repeatUntil is its next
\* occurrence, and one whose repeatUntil is the occurrence after that; a monthly
\* one due in three days with an advance notice of three days, for the user only
CreateBodies ==
  { CreateBody(Base, "once", 0, NoDate),
    CreateBody(Base + 40, "daily", 0, NoDate),
    CreateBody(Base, "daily", 0, candidateDate(Base, "daily")),
    CreateBody(Base, "daily", 0,
               candidateDate(candidateDate(Base, "daily"), "daily")),
    [CreateBody(Base + AdvanceDays * DaySec, "monthly", AdvanceDays, NoDate)
       EXCEPT !.notifyClient = FALSE] }

\* the bodies of the create requests of tenant u
BodiesOf(u) ==
  IF u \in Creators THEN CreateBodies ELSE {CreateBody(Base, "once", 0, NoDate)}

\* the bodies of the update requests: the fields given
UpdateBodies ==
  { [status |-> st] : st \in Statuses }
    \cup { [dueDate |-> d] : d \in DueDates }
    \cup { [frequency |-> "once"] }

\* no recurrence calculation in progress (the value of rec outside SpecRecur)
RecIdle ==
  [dueDate |-> NoDate, frequency |-> "once", repeatUntil |-> NoDate, now |-> NoDate,
   result |-> NoDate, called |-> FALSE, count |-> 0]

\* the products of the tenant's shop
Products == {"p1", "p2"}

\* no productId in a sale: a service sale, or a product sale without product
NoProduct == "none"

\* the shop before any request (the value of shop outside SpecStock)
ShopIdle ==
  [stock |-> [p \in Products |-> 0], sales |-> <<>>, nextSale |-> 1,
   lastOp |-> "none", lastId |-> 0, before |-> [p \in Products |-> 0], count |-> 0]

\* no evaluation in progress (the value of ev outside the evaluator's runs)
EvIdle ==
  [s |-> [dueDate |-> NoDate, advanceNotificationDays |-> 0, lastNotified |-> NoDate],
   now |-> NoDate, adv |-> FALSE, due |-> FALSE, already |-> FALSE, fired |-> FALSE,
   prevNow |-> NoDate, prevFiredDue |-> FALSE]

SysInit ==
  /\ clock = Start
  /\ users = Users
  /\ schedules = <<>>
  /\ nextId = 1
  /\ sweeps = [k \in SweepKinds |-> IdleSweep]
  /\ cronLast = Base - MinuteSec
  /\ cronDone = Base - MinuteSec
  /\ overlap = FALSE
  /\ restarts = 0
  /\ log = <<>>
  /\ last = NoRequest
  /\ ops = 0
  /\ faults = 0

Init == ev = EvIdle /\ rec = RecIdle /\ shop = ShopIdle /\ SysInit

Next ==
  \/ \E u \in Users : \E b \in BodiesOf(u) : createSchedule(u, b)
  \/ \E u \in Users, i \in 1 .. MaxSchedules : getSchedule(u, i)
  \/ \E u \in Users, i \in 1 .. MaxSchedules, b \in UpdateBodies : updateSchedule(u, i, b)
  \/ \E u \in Users, i \in 1 .. MaxSchedules : deleteSchedule(u, i)
  \/ \E u \in Users, i \in 1 .. MaxSchedules, f \in CompleteFaults : completeSchedule(u, i, f)
  \/ \E u \in Creators : deleteUser(u)
  \/ cronTick
  \/ restart
  \/ \E k \in SweepKinds, f \in StepFaults : sweepStep(k, f)
  \/ advance
  \/ skip

Spec == Init /\ [][Next]_vars

(* ------------------------------------------------------------------ *)
(* The evaluator on its own: one reminder, evaluated at chosen instants *)
(* ------------------------------------------------------------------ *)

\* 2024-03-10 10:00:00, a minute boundary
EvalBase == DaysFromCivil(2024, 3, 10) * DaySec + 10 * 3600

\* due dates: on the minute, and 30 and 59 seconds into it
EvalDueDates == {EvalBase, EvalBase + 30, EvalBase + 59}

\* evaluation instants, relative to dueDate - k days
EvalOffsets == {0 - 60, 0 - 1, 0, 1, 30, 50, 59, 60, 61, 120}

EvalNows(s) ==
  { s.dueDate - k * DaySec + o : k \in 0 .. (MaxAdvanceDays + 1), o \in EvalOffsets }

EvalInit ==
  /\ SysInit
  /\ rec = RecIdle
  /\ shop = ShopIdle
  /\ \E d \in EvalDueDates, n \in 0 .. MaxAdvanceDays :
       ev = [EvIdle EXCEPT !.s = [dueDate |-> d, advanceNotificationDays |-> n,
                                  lastNotified |-> NoDate]]

\* one pass of the loop body of checkAndSendNotifications over the reminder at
\* instant t: the three tests, and lastNotified written when the branch is taken
Evaluate(t) ==
  /\ t >= ev.now
  /\ LET s == ev.s
         fire == shouldNotify(s, t)
     IN  ev' = [s |-> IF fire THEN [s EXCEPT !.lastNotified = t] ELSE s,
                now |-> t,
                adv |-> shouldSendAdvance(s, t),
                due |-> shouldSendDue(s, t),
                already |-> alreadyNotified(s, t),
                fired |-> fire,
                prevNow |-> ev.now,
                prevFiredDue |-> ev.fired /\ ev.due]
  /\ UNCHANGED <<rec, shop, sysVars>>

EvalNext == \E t \in EvalNows(ev.s) : Evaluate(t)

SpecEval == EvalInit /\ [][EvalNext]_vars

(* ------------------------------------------------------------------ *)
(* The recurrence calculation on its own: calculateNextDueDate applied  *)
(* to chosen reminders, and the rollover that makes its result the      *)
(* dueDate of the next occurrence                                       *)
(* ------------------------------------------------------------------ *)

\* the instant of 10:00:00 on the given day
At(y, m, d) == DaysFromCivil(y, m, d) * DaySec + 10 * 3600

\* due dates: month ends of 31, 30 and 29 days, a year end, a leap day, and
\* days in the middle of a month
RecurDueDates ==
  { At(2024, 1, 31), At(2024, 2, 29), At(2024, 3, 10), At(2024, 3, 31),
    At(2023, 12, 31), At(2023, 1, 29), At(2024, 4, 30), At(2024, 5, 15) }

\* the frequencies of the schema and one that is none of them
RecurFrequencies == Frequencies \cup {"hourly"}

\* repeatUntil: absent, three days after dueDate, and around the candidate
RecurUntils(d, f) ==
  {NoDate, d + 3 * DaySec}
    \cup (IF candidateDate(d, f) = NoDate THEN {}
          ELSE {candidateDate(d, f) - 1, candidateDate(d, f), candidateDate(d, f) + 1})

\* the instant of the call: before dueDate, and around repeatUntil
RecurNows(d, r) ==
  {d - DaySec} \cup (IF r = NoDate THEN {} ELSE {r, r + 1})

RecurInit ==
  /\ SysInit
  /\ ev = EvIdle
  /\ shop = ShopIdle
  /\ \E d \in RecurDueDates, f \in RecurFrequencies :
       \E r \in RecurUntils(d, f) :
         \E n \in RecurNows(d, r) :
           rec = [RecIdle EXCEPT !.dueDate = d, !.frequency = f,
                                 !.repeatUntil = r, !.now = n]

\* calculateNextDueDate(dueDate, frequency, repeatUntil) is called at rec.now
nextOccurrence ==
  /\ ~rec.called
  /\ rec' = [rec EXCEPT
               !.result = calculateNextDueDate(rec.dueDate, rec.frequency,
                                               rec.repeatUntil, rec.now),
               !.called = TRUE]
  /\ UNCHANGED <<ev, shop, sysVars>>

\* the rollover of completeSchedule: the next occurrence has dueDate = the
\* nextDueDate calculated, and its own nextDueDate is calculated in turn
rollover ==
  /\ rec.called
  /\ rec.result # NoDate
  /\ rec.count < MaxRollovers
  /\ rec' = [rec EXCEPT !.dueDate = rec.result, !.result = NoDate,
                        !.called = FALSE, !.count = @ + 1]
  /\ UNCHANGED <<ev, shop, sysVars>>

RecurNext == nextOccurrence \/ rollover

SpecRecur == RecurInit /\ [][RecurNext]_vars

(* ------------------------------------------------------------------ *)
(* The sales and the stock of the products (SpecStock)                  *)
(* ------------------------------------------------------------------ *)

\* largest stock a product starts with
MaxStock == 2

\* largest quantity of a sale (the validation asks for an integer >= 1)
MaxQuantity == 3

\* number of sale records created in a run
MaxSales == 3

\* number of sales in a bulk request
MaxBulk == 2

\* number of sale requests in a run
MaxShopOps == 3

\* Math.max
max(a, b) == IF a >= b THEN a ELSE b

\* product.stock = Math.max(0, product.stock - quantity), for a sale that names
\* a product
reduced(stock, productId, quantity) ==
  IF productId \in DOMAIN stock
  THEN [stock EXCEPT ![productId] = max(0, @ - quantity)]
  ELSE stock

\* product.stock = product.stock + sale.quantity, for a sale that names a product
restored(stock, productId, quantity) ==
  IF productId \in DOMAIN stock
  THEN [stock EXCEPT ![productId] = @ + quantity]
  ELSE stock

\* the sales of the request bodies
SaleBodies ==
  [productId : Products \cup {NoProduct}, quantity : 1 .. MaxQuantity]

\* the sales arrays of the bulk requests
BulkBodies ==
  UNION { [1 .. n -> SaleBodies] : n \in 1 .. MaxBulk }

\* the loop of createBulkSales over the stock
RECURSIVE bulkReduced(_, _)
bulkReduced(stock, sales) ==
  IF sales = <<>> THEN stock
  ELSE bulkReduced(reduced(stock, Head(sales).productId, Head(sales).quantity),
                   Tail(sales))

\* a sale request is served, within the run's budget
ShopServe == shop.count < MaxShopOps

\* the history of the latest sale request: what it was, the sale it was about,
\* and the stock before it
Noted(op, id) ==
  [shop EXCEPT !.lastOp = op, !.lastId = id, !.before = shop.stock,
               !.count = @ + 1]

StockInit ==
  /\ SysInit
  /\ ev = EvIdle
  /\ rec = RecIdle
  /\ \E s \in [Products -> 0 .. MaxStock] : shop = [ShopIdle EXCEPT !.stock = s]

\* createSale of a product sale
createSale(body) ==
  /\ ShopServe
  /\ shop.nextSale <= MaxSales
  /\ shop' = [Noted("create", shop.nextSale) EXCEPT
                !.stock = reduced(shop.stock, body.productId, body.quantity),
                !.sales = [i \in DOMAIN shop.sales \cup {shop.nextSale} |->
                             IF i = shop.nextSale THEN body ELSE shop.sales[i]],
                !.nextSale = @ + 1]
  /\ UNCHANGED <<ev, rec, sysVars>>

\* createBulkSales
createBulkSales(sales) ==
  /\ ShopServe
  /\ shop.nextSale + Len(sales) - 1 <= MaxSales
  /\ shop' = [Noted("bulk", 0) EXCEPT
                !.stock = bulkReduced(shop.stock, sales),
                !.sales = [i \in DOMAIN shop.sales
                                   \cup (shop.nextSale .. shop.nextSale + Len(sales) - 1) |->
                             IF i >= shop.nextSale THEN sales[i - shop.nextSale + 1]
                             ELSE shop.sales[i]],
                !.nextSale = @ + Len(sales)]
  /\ UNCHANGED <<ev, rec, sysVars>>

\* updateSale; the body always has a quantity, and a productId or none
updateSale(id, body) ==
  /\ ShopServe
  /\ id \in DOMAIN shop.sales
  /\ LET oldSale == shop.sales[id]
         quantityChanged == body.quantity # oldSale.quantity
         productIdChanged ==
           body.productId # NoProduct /\ body.productId # oldSale.productId
         newProductId ==
           IF body.productId # NoProduct THEN body.productId ELSE oldSale.productId
     IN  shop' = [Noted("update", id) EXCEPT
                    !.stock =
                      IF quantityChanged \/ productIdChanged
                      THEN reduced(restored(shop.stock, oldSale.productId,
                                            oldSale.quantity),
                                   newProductId, body.quantity)
                      ELSE shop.stock,
                    !.sales[id] = [productId |-> newProductId,
                                   quantity |-> body.quantity]]
  /\ UNCHANGED <<ev, rec, sysVars>>

\* deleteSale
deleteSale(id) ==
  /\ ShopServe
  /\ id \in DOMAIN shop.sales
  /\ shop' = [Noted("delete", id) EXCEPT
                !.stock = restored(shop.stock, shop.sales[id].productId,
                                   shop.sales[id].quantity),
                !.sales = [i \in DOMAIN shop.sales \ {id} |-> shop.sales[i]]]
  /\ UNCHANGED <<ev, rec, sysVars>>

StockNext ==
  \/ \E b \in SaleBodies : createSale(b)
  \/ \E l \in BulkBodies : createBulkSales(l)
  \/ \E i \in 1 .. MaxSales, b \in SaleBodies : updateSale(i, b)
  \/ \E i \in 1 .. MaxSales : deleteSale(i)

SpecStock == StockInit /\ [][StockNext]_vars

(* ------------------------------------------------------------------ *)
(* Claims about the sweep and the controller (under Spec)               *)
(* ------------------------------------------------------------------ *)

\* C1: with sweeps that never overlap and are at most one minute apart (the cron
\* ticks and the eager sweep of every restart), no operation failing, the
\* due-date notification of a reminder whose dueDate is not modified is sent at
\* most once to the user and at most once to the client.
C1_DueSentAtMostOnce ==
  \A id \in DOMAIN log :
    (~overlap /\ faults = 0 /\ ~log[id].dueModified)
      => (log[id].dueUser <= 1 /\ log[id].dueClient <= 1)

\* C3: with a tick every 60 seconds and no failing operation, a reminder that is
\* pending with an existing owner from before its dueDate on has had its due-date
\* path taken, and lastNotified written, once a tick at or after dueDate is over.
C3_DueFiringNotMissed ==
  \A id \in DOMAIN schedules :
    ( /\ schedules[id].status = "pending"
      /\ schedules[id].userId \in users
      /\ faults = 0
      /\ log[id].early
      /\ cronDone >= schedules[id].dueDate )
    => log[id].dueSaved >= 1

\* C4: when the processing of one reminder fails in a sweep (the owner lookup or
\* the save of lastNotified throws), no other reminder of that sweep that is due
\* for a notification goes without being processed in that sweep.
C4_FailureIsolated ==
  [][ \A k \in SweepKinds :
        ( /\ sweeps[k].active
          /\ ~sweeps'[k].active
          /\ faults' > faults )
        => \A j \in 2 .. Len(sweeps[k].queue) :
             ~ ( /\ shouldNotify(sweeps[k].queue[j].doc, sweeps[k].now)
                 /\ sweeps[k].queue[j].doc.userId \in users ) ]_vars

\* C5 (P6): completing a pending recurring reminder that has a nextDueDate creates
\* exactly one new reminder, pending, with dueDate = the old nextDueDate, and
\* changes the original only in its status, which becomes completed.
C5_CompletionSpawnsSuccessor ==
  [][ ( /\ ops' = ops + 1
        /\ last'.op = "complete"
        /\ last'.code = 200
        /\ schedules[last'.id].status = "pending"
        /\ schedules[last'.id].frequency # "once"
        /\ schedules[last'.id].nextDueDate # NoDate )
      => ( /\ DOMAIN schedules' = DOMAIN schedules \cup {nextId}
           /\ nextId \notin DOMAIN schedules
           /\ schedules'[nextId].status = "pending"
           /\ schedules'[nextId].dueDate = schedules[last'.id].nextDueDate
           /\ schedules'[last'.id] =
                [schedules[last'.id] EXCEPT !.status = "completed"] ) ]_vars

\* C6: when the creation of the successor fails in completeSchedule, the original
\* reminder is stored with status completed all the same.
C6_CompletedDespiteSuccessorFailure ==
  (last.op = "complete" /\ last.fault)
    => (last.id \in DOMAIN schedules /\ schedules[last.id].status = "completed")

\* C7: the status of a reminder changes only from pending to completed or from
\* pending to cancelled, under every request and every sweep.
C7_StatusOnlyLeavesPending ==
  [][ \A id \in DOMAIN schedules \cap DOMAIN schedules' :
        schedules'[id].status # schedules[id].status
          => ( /\ schedules[id].status = "pending"
               /\ schedules'[id].status \in {"completed", "cancelled"} ) ]_vars

(* ------------------------------------------------------------------ *)
(* Claims about the evaluator (under SpecEval)                          *)
(* ------------------------------------------------------------------ *)

\* C2 (P1): with advanceNotificationDays = 0, when an evaluation at t1 fired the
\* due notification and recorded lastNotified = t1, a second evaluation at t2 in
\* the same calendar minute, both at or after dueDate, sends nothing.
C2_SecondEvaluationSendsNothing ==
  ( /\ ev.s.advanceNotificationDays = 0
    /\ ev.prevNow # NoDate
    /\ ev.prevFiredDue
    /\ ev.prevNow >= ev.s.dueDate
    /\ ev.now >= ev.s.dueDate
    /\ isSameMinute(ev.prevNow, ev.now) )
  => ~ev.fired

\* C8 (P2): with advanceNotificationDays > 0 no evaluation finds both the
\* advance firing and the due-date firing eligible.
C8_AdvanceAndDueExclusive ==
  (ev.now # NoDate /\ ev.s.advanceNotificationDays > 0) => ~(ev.adv /\ ev.due)

C8_Witness ==
  /\ ev.s.advanceNotificationDays > 0
  /\ ev.adv
  /\ ev.prevNow # NoDate

\* C9: the due-date firing is eligible exactly when dueDate <= now <= dueDate + 60 s;
\* (P3) past the window nothing is sent, also with lastNotified unset.
C9_DueWindow ==
  ev.now # NoDate =>
    /\ ev.due <=> (ev.s.dueDate <= ev.now /\ ev.now <= ev.s.dueDate + WindowSec)
    /\ ev.now > ev.s.dueDate + WindowSec => ~ev.fired

C9_Witness ==
  /\ ev.now > ev.s.dueDate + WindowSec
  /\ ev.s.lastNotified = NoDate
  /\ ~ev.due

\* C10: the advance firing is eligible exactly when advanceNotificationDays = N > 0
\* and dueDate - N days <= now <= dueDate - N days + 60 s, and the ceil-based
\* day count equals N at every instant of that window.
C10_AdvanceWindow ==
  ev.now # NoDate =>
    LET inWindow == /\ advanceTarget(ev.s) <= ev.now
                    /\ ev.now <= advanceTarget(ev.s) + WindowSec
    IN  /\ ev.adv <=> (ev.s.advanceNotificationDays > 0 /\ inWindow)
        /\ (ev.s.advanceNotificationDays > 0 /\ inWindow)
             => daysUntilDue(ev.s.dueDate, ev.now) = ev.s.advanceNotificationDays

C10_Witness ==
  /\ ev.adv
  /\ ev.now = advanceTarget(ev.s) + WindowSec

(* ------------------------------------------------------------------ *)
(* Claims about the recurrence calculation (under SpecRecur)            *)
(* ------------------------------------------------------------------ *)

\* C11 (P4): the next occurrence of a monthly reminder lies in the calendar
\* month that follows the month of dueDate (for 2024-01-31: in February 2024).
C11_MonthlyNextInFollowingMonth ==
  (rec.called /\ rec.frequency = "monthly" /\ rec.result # NoDate)
    => /\ getMonth(rec.result) = (getMonth(rec.dueDate) + 1) % 12
       /\ getFullYear(rec.result) =
            getFullYear(rec.dueDate) + (getMonth(rec.dueDate) + 1) \div 12

\* C12: calculateNextDueDate returns nothing exactly when frequency is once or
\* unknown, or repeatUntil is set and before the instant of the call, or
\* repeatUntil is set and the candidate (dueDate + 1 day, + 7 days, + 1 month,
\* + 1 year) is after it; otherwise it returns the candidate, also when the
\* candidate equals repeatUntil. (P5) weekly with repeatUntil = dueDate + 3 days
\* gives nothing.
C12_NextOccurrenceCases ==
  rec.called =>
    LET d == rec.dueDate
        r == rec.repeatUntil
        candidate == CASE rec.frequency = "daily"   -> d + DaySec
                       [] rec.frequency = "weekly"  -> d + 7 * DaySec
                       [] rec.frequency = "monthly" -> MakeDate(getFullYear(d), getMonth(d) + 1, getDate(d), d)
                       [] rec.frequency = "yearly"  -> MakeDate(getFullYear(d) + 1, getMonth(d), getDate(d), d)
                       [] OTHER -> NoDate
        none == \/ rec.frequency \notin {"daily", "weekly", "monthly", "yearly"}
                \/ r # NoDate /\ r < rec.now
                \/ r # NoDate /\ candidate > r
    IN  /\ rec.result = IF none THEN NoDate ELSE candidate
        /\ (rec.frequency = "weekly" /\ r = d + 3 * DaySec) => rec.result = NoDate

C12_Witness ==
  /\ rec.called
  /\ rec.frequency = "daily"
  /\ rec.repeatUntil = rec.dueDate + DaySec
  /\ rec.now <= rec.repeatUntil
  /\ rec.result = rec.repeatUntil

(* ------------------------------------------------------------------ *)
(* Further claims about the controller and the sweep (under Spec)       *)
(* ------------------------------------------------------------------ *)

\* C13 (P7): completing a reminder with frequency once creates no new reminder.
C13_OnceSpawnsNothing ==
  [][ ( /\ ops' = ops + 1
        /\ last'.op = "complete"
        /\ last'.id \in DOMAIN schedules
        /\ schedules[last'.id].userId = last'.user
        /\ schedules[last'.id].frequency = "once" )
      => ( /\ DOMAIN schedules' = DOMAIN schedules
           /\ nextId' = nextId ) ]_vars

C13_Witness ==
  /\ last.op = "complete"
  /\ last.code = 200
  /\ last.id \in DOMAIN schedules
  /\ schedules[last.id].frequency = "once"
  /\ schedules[last.id].status = "completed"

\* the reminder of the end-to-end scenario: monthly, advance notice of three
\* days, notifications for the user only
C14_Scenario(s) ==
  /\ s.frequency = "monthly"
  /\ s.advanceNotificationDays = 3
  /\ s.notifyUser
  /\ ~s.notifyClient

C15_TenantIsolation ==
  [][ ( /\ ops' = ops + 1
        /\ last'.op \in {"get", "update", "delete", "complete"} )
      => LET u == last'.user
             i == last'.id
         IN  /\ (i \notin DOMAIN schedules \/ schedules[i].userId # u)
                  => ( /\ last'.code = 404
                       /\ schedules' = schedules
                       /\ nextId' = nextId )
             /\ \A j \in DOMAIN schedules' \ DOMAIN schedules :
                  /\ i \in DOMAIN schedules
                  /\ schedules[i].userId = u
                  /\ schedules'[j].userId = u ]_vars

C15_Witness ==
  /\ last.op \in {"update", "delete", "complete"}
  /\ last.code = 404
  /\ last.id \in DOMAIN schedules
  /\ schedules[last.id].userId # last.user
  /\ schedules[last.id].userId \in users
  /\ last.user \in users

\* C16: a reminder whose lastNotified is set has it inside the firing window of
\* the due-date instant or of the advance-notice instant of its current dueDate
\* and advanceNotificationDays.
C16_LastNotifiedOfCurrentOccurrence ==
  \A id \in DOMAIN schedules :
    LET s == schedules[id]
    IN  s.lastNotified # NoDate =>
          \/ /\ s.dueDate <= s.lastNotified
             /\ s.lastNotified <= s.dueDate + WindowSec
          \/ /\ s.advanceNotificationDays > 0
             /\ advanceTarget(s) <= s.lastNotified
             /\ s.lastNotified <= advanceTarget(s) + WindowSec

\* C17: every stored reminder with frequency once has no nextDueDate, in every
\* state reached through create, update and complete.
C17_OnceHasNoNextDueDate ==
  \A id \in DOMAIN schedules :
    schedules[id].frequency = "once" => schedules[id].nextDueDate = NoDate

\* a reminder created as a daily one with a repeatUntil, made a single one by
\* an update
C17_Witness ==
  /\ last.op = "update"
  /\ last.code = 200
  /\ last.id \in DOMAIN schedules
  /\ schedules[last.id].frequency = "once"
  /\ schedules[last.id].repeatUntil # NoDate

\* C18: when a firing is eligible and not yet fired, a failing user notification
\* prevents neither the client notification (notifyClient set, client linked) nor
\* the write of lastNotified, and a failing client notification does not prevent
\* the write of lastNotified; lastNotified is written once in that pass.
C18_SendFailureIsolated ==
  [][ \A k \in SweepKinds :
        (sweeps[k].active /\ sweeps'[k] # sweeps[k]) =>
          LET id  == Head(sweeps[k].queue).id
              s   == Head(sweeps[k].queue).doc
              now == sweeps[k].now
              l   == log[id]
              m   == log'[id]
              due == shouldSendDue(s, now)
          IN  ( /\ shouldNotify(s, now)
                /\ s.userId \in users
                /\ id \in DOMAIN schedules
                /\ m.fault \in {"userSend", "clientSend"} )
              => ( /\ schedules'[id].lastNotified = clock
                   /\ IF due THEN m.dueSaved = Bump(l.dueSaved) /\ m.advSaved = l.advSaved
                             ELSE m.advSaved = Bump(l.advSaved) /\ m.dueSaved = l.dueSaved
                   /\ (m.fault = "userSend" /\ s.notifyClient /\ s.clientId # NoClient)
                        => IF due THEN m.dueClient = Bump(l.dueClient)
                                  ELSE m.advClient = Bump(l.advClient)
                   /\ (m.fault = "clientSend" /\ s.notifyUser)
                        => IF due THEN m.dueUser = Bump(l.dueUser)
                                  ELSE m.advUser = Bump(l.advUser) ) ]_vars

C18_Witness ==
  \E id \in DOMAIN schedules :
    /\ log[id].fault = "userSend"
    /\ log[id].dueUser = 0
    /\ log[id].dueClient = 1
    /\ log[id].dueSaved = 1
    /\ schedules[id].lastNotified # NoDate

\* C19: when the write of lastNotified fails for a reminder in a tick, the next
\* tick finds the reminder eligible and not yet fired again, and retries the
\* firing: no failed write is still outstanding once the next tick is over.
C19_FailedWriteRetried ==
  \A id \in DOMAIN schedules :
    ( /\ schedules[id].status = "pending"
      /\ schedules[id].userId \in users
      /\ ~log[id].dueModified
      /\ faults = 1
      /\ log[id].fault = "save"
      /\ log[id].failedAt # NoDate
      /\ cronDone >= log[id].failedAt + MinuteSec )
    => FALSE

\* C20: when the owner of a reminder that is due no longer exists, the sweep
\* sends nothing for it, leaves its lastNotified (and every document) as it is,
\* raises no error, and goes on with the remaining reminders of the tick.
C20_OrphanSkipped ==
  [][ \A k \in SweepKinds :
        (sweeps[k].active /\ sweeps'[k] # sweeps[k]) =>
          LET sw   == sweeps[k]
              s    == Head(sw.queue).doc
              rest == Tail(sw.queue)
          IN  ( /\ shouldNotify(s, sw.now)
                /\ s.userId \notin users
                /\ faults' = faults )
              => ( /\ schedules' = schedules
                   /\ log' = log
                   /\ sweeps'[k] = IF rest = <<>> THEN IdleSweep
                                   ELSE [sw EXCEPT !.queue = rest] ) ]_vars

\* the sweep passed over the reminder of a deleted owner and then notified the
\* reminder of another tenant, due at the same instant
C20_Witness ==
  \E i \in DOMAIN schedules, j \in DOMAIN schedules :
    /\ i < j
    /\ ops = 3 /\ faults = 0 /\ restarts = 0
    /\ schedules[i].userId \notin users
    /\ schedules[i].status = "pending"
    /\ schedules[i].lastNotified = NoDate
    /\ log[i].dueUser = 0 /\ log[i].dueClient = 0
    /\ schedules[j].userId \in users
    /\ schedules[j].dueDate = schedules[i].dueDate
    /\ schedules[i].advanceNotificationDays = 0
    /\ log[j].dueUser = 1
    /\ schedules[j].lastNotified # NoDate
    /\ \A k \in SweepKinds : ~sweeps[k].active

(* ------------------------------------------------------------------ *)
(* Claims about what the sweep and the completion touch (under Spec)    *)
(* ------------------------------------------------------------------ *)

\* C21: a sweep sends no notification and writes no lastNotified for a reminder
\* whose status is completed or cancelled when the sweep loads its candidates:
\* the candidates loaded are the pending reminders, as stored at that instant,
\* and notifications and lastNotified writes happen for loaded candidates only.
C21_OnlyPendingSwept ==
  [][ /\ \A k \in SweepKinds :
           (~sweeps[k].active /\ sweeps'[k].active) =>
             /\ \A n \in 1 .. Len(sweeps'[k].queue) :
                  LET it == sweeps'[k].queue[n]
                  IN  /\ it.id \in DOMAIN schedules
                      /\ schedules[it.id].status = "pending"
                      /\ it.doc = schedules[it.id]
             /\ \A id \in DOMAIN schedules :
                  schedules[id].status \in {"completed", "cancelled"}
                    => \A n \in 1 .. Len(sweeps'[k].queue) : sweeps'[k].queue[n].id # id
      /\ \A id \in DOMAIN log :
           ( \/ log'[id].advUser > log[id].advUser
             \/ log'[id].advClient > log[id].advClient
             \/ log'[id].dueUser > log[id].dueUser
             \/ log'[id].dueClient > log[id].dueClient
             \/ /\ id \in DOMAIN schedules /\ id \in DOMAIN schedules'
                /\ schedules'[id].lastNotified # schedules[id].lastNotified )
           => \E k \in SweepKinds :
                /\ sweeps[k].active
                /\ Head(sweeps[k].queue).id = id
                /\ Head(sweeps[k].queue).doc.status = "pending" ]_vars

\* a reminder completed or cancelled before its dueDate, with a tick at or after
\* the dueDate over: nothing was sent and lastNotified is unset
C21_Witness ==
  \E id \in DOMAIN schedules, other \in DOMAIN schedules :
    /\ schedules[id].status \in {"completed", "cancelled"}
    /\ log[id].early
    /\ ~log[id].dueModified
    /\ schedules[id].userId \in users
    /\ cronDone >= schedules[id].dueDate
    /\ schedules[id].advanceNotificationDays = 0
    /\ schedules[id].lastNotified = NoDate
    /\ log[id].dueUser = 0 /\ log[id].dueClient = 0 /\ log[id].dueSaved = 0
    /\ other # id
    /\ schedules[other].dueDate = schedules[id].dueDate
    /\ log[other].dueUser = 1

\* C22: a sweep changes no field of a reminder other than lastNotified, deletes
\* no reminder and creates none; the completion deletes no reminder.
C22_SweepWritesLastNotifiedOnly ==
  [][ /\ sweeps' # sweeps
         => /\ DOMAIN schedules' = DOMAIN schedules
            /\ nextId' = nextId
            /\ \A id \in DOMAIN schedules :
                 [schedules'[id] EXCEPT !.lastNotified = schedules[id].lastNotified]
                   = schedules[id]
      /\ (ops' = ops + 1 /\ last'.op = "complete")
         => DOMAIN schedules \subseteq DOMAIN schedules' ]_vars

\* a sweep has written lastNotified for a reminder, and a completion has created
\* its successor
C22_Witness ==
  \E id \in DOMAIN schedules, j \in DOMAIN schedules :
    /\ schedules[id].lastNotified # NoDate
    /\ log[id].dueSaved = 1
    /\ schedules[id].status = "completed"
    /\ last.op = "complete" /\ last.code = 200 /\ last.id = id
    /\ j # id
    /\ schedules[j].dueDate = schedules[id].nextDueDate

C24_NoticeFailureNotPropagated ==
  [][(ops' = ops + 1 /\ last'.op = "complete" /\ last'.notice # "none")
       => /\ last'.code = 200
          /\ ~last'.fault
          /\ last'.data = last'.id
          /\ last'.id \in DOMAIN schedules'
          /\ schedules'[last'.id].status = "completed"
          /\ \A i \in DOMAIN schedules' \ DOMAIN schedules :
               /\ last'.data # i
               /\ schedules'[i].status = "pending"
               /\ schedules'[i].dueDate = schedules[last'.id].nextDueDate]_vars

\* a completion whose notice failed after a successor was created
C24_Witness ==
  /\ last.op = "complete"
  /\ last.notice \in {"userLookup", "noticeSend"}
  /\ last.code = 200
  /\ last.id \in DOMAIN schedules
  /\ schedules[last.id].status = "completed"
  /\ \E i \in DOMAIN schedules :
       /\ i # last.id
       /\ schedules[i].status = "pending"
       /\ schedules[i].dueDate = schedules[last.id].nextDueDate

\* C25: the lastNotified a tick writes for a reminder is the instant now that
\* the tick took at its start and evaluated the reminder against.
C25_LastNotifiedIsTickNow ==
  [][ \A k \in SweepKinds :
        (sweeps[k].active /\ sweeps'[k] # sweeps[k] /\ sweeps[k].queue # <<>>) =>
          LET id == Head(sweeps[k].queue).id
          IN  ( /\ id \in DOMAIN schedules
                /\ id \in DOMAIN schedules'
                /\ schedules'[id].lastNotified # schedules[id].lastNotified )
              => schedules'[id].lastNotified = sweeps[k].now ]_vars

\* C26: a complete() on a reminder that is already completed or cancelled
\* creates no further record, so that a reminder gets at most one successor.
C26_CompleteOnceOnly ==
  [][ ( /\ ops' = ops + 1
        /\ last'.op = "complete"
        /\ last'.id \in DOMAIN schedules
        /\ schedules[last'.id].userId = last'.user
        /\ schedules[last'.id].status # "pending" )
      => DOMAIN schedules' = DOMAIN schedules ]_vars

\* C27: after a tenant completed, cancelled or deleted a reminder that a running
\* tick had loaded as pending, that tick sends no notification for it; the
\* tick's write of lastNotified leaves the stored status as it is and never
\* stores a deleted record again.
C27_NoSendAfterChange ==
  [][ \A k \in SweepKinds :
        (sweeps[k].active /\ sweeps'[k] # sweeps[k] /\ sweeps[k].queue # <<>>) =>
          LET id == Head(sweeps[k].queue).id
          IN  /\ (id \notin DOMAIN schedules \/ schedules[id].status # "pending")
                   => /\ log'[id].dueUser = log[id].dueUser
                      /\ log'[id].dueClient = log[id].dueClient
                      /\ log'[id].advUser = log[id].advUser
                      /\ log'[id].advClient = log[id].advClient
              /\ DOMAIN schedules' = DOMAIN schedules
              /\ id \in DOMAIN schedules => schedules'[id].status = schedules[id].status ]_vars

\* C28: at most one execution of the sweep is in progress at any time: the
\* sweep run at startup and the cron ticks never overlap, so no two of them
\* hold the same reminder with the same lastNotified.
C28_OneSweepAtATime ==
  \A j \in SweepKinds, k \in SweepKinds :
    (j # k /\ sweeps[j].active /\ sweeps[k].active) =>
      \A m \in DOMAIN sweeps[j].queue, n \in DOMAIN sweeps[k].queue :
        sweeps[j].queue[m].id = sweeps[k].queue[n].id
          => sweeps[j].queue[m].doc.lastNotified # sweeps[k].queue[n].doc.lastNotified

\* C29: every reminder the completion workflow creates in a series with
\* repeatUntil set has dueDate <= repeatUntil and a dueDate after that of the
\* reminder completed, and every stored nextDueDate that is set is strictly
\* after its reminder's dueDate: the occurrences of a series advance and stay
\* within repeatUntil, so only finitely many are spawned.
C29_SeriesBounded ==
  [][ /\ \A id \in DOMAIN schedules' :
           schedules'[id].nextDueDate # NoDate
             => schedules'[id].nextDueDate > schedules'[id].dueDate
      /\ (ops' = ops + 1 /\ last'.op = "complete")
           => \A j \in DOMAIN schedules' \ DOMAIN schedules :
                /\ schedules'[j].dueDate > schedules[last'.id].dueDate
                /\ schedules'[j].repeatUntil # NoDate
                     => schedules'[j].dueDate <= schedules'[j].repeatUntil ]_vars

\* a successor spawned inside a series with repeatUntil set, whose own next
\* occurrence is the last one of the series
C29_Witness ==
  \E i \in DOMAIN schedules, j \in DOMAIN schedules :
    /\ last.op = "complete" /\ last.code = 200 /\ last.id = i
    /\ j > i
    /\ schedules[i].repeatUntil # NoDate
    /\ schedules[i].status = "completed"
    /\ schedules[j].status = "pending"
    /\ schedules[j].dueDate = schedules[i].nextDueDate
    /\ schedules[j].repeatUntil = schedules[i].repeatUntil
    /\ schedules[j].nextDueDate = schedules[j].repeatUntil

(* ------------------------------------------------------------------ *)
(* Claim about the stock (under SpecStock)                              *)
(* ------------------------------------------------------------------ *)

\* C30: the stock of a product is never negative after any sale request, and
\* deleting a sale right after it was recorded puts the stock back to what it
\* was before that sale, for every starting stock and every quantity.
C30_StockRestored ==
  [][ /\ \A p \in Products : shop'.stock[p] >= 0
      /\ ( /\ shop.lastOp = "create"
           /\ shop'.lastOp = "delete"
           /\ shop'.lastId = shop.lastId )
         => shop'.stock = shop.before ]_vars

====
